---- MODULE Spec2Model ----
(***************************************************************************)
(* floatify.py: a recursive walk over a parsed JSON document that replaces *)
(* integer values under the keys ip, op, st, fr, w, h by floats, and the   *)
(* load / transform / save driver around it.                               *)
(*                                                                         *)
(* A JSON value is a record whose field t is the Python type json.load     *)
(* gives it ("int", "float", "bool", "str", "null", "arr" for list, "obj"  *)
(* for dict) and whose other field is its content.  A dict is the sequence *)
(* of its <<key, value>> entries in insertion order.  A number is a sign   *)
(* and the set of the exponents of the binary digits 1 of its magnitude:   *)
(* Python's int is unbounded, and a float is an IEEE double, whose digits  *)
(* 1 span at most DBL_MANT_DIG places.                                     *)
(***************************************************************************)
EXTENDS Integers, Sequences, FiniteSets, TLC

\* Bounds of the model.
MaxNodes == 4        \* nodes of a document handed to floatify
MaxFileNodes == 3    \* nodes of the document a processed file holds

\* The double format float() converts to.
DBL_MANT_DIG == 53
DBL_MAX_EXP == 1024

Path == "doc.json"

-----------------------------------------------------------------------------
(* Numbers *)

Front(s) == SubSeq(s, 1, Len(s) - 1)
Last(s) == s[Len(s)]

Max(S) == CHOOSE x \in S : \A y \in S : y <= x
Min(S) == CHOOSE x \in S : \A y \in S : x <= y

\* The number whose binary digits 1 are at the exponents of bits: the sum of
\* 2^e for e in bits, negated when neg.
Num(neg, bits) == [neg |-> neg /\ bits # {}, bits |-> bits]

\* The values the model's documents are built from.
Five == Num(FALSE, {2, 0})
\* 2^53 + 1, the smallest positive integer that is not a double.
BigOdd == Num(FALSE, {DBL_MANT_DIG, 0})
\* 2^1024, the smallest positive integer beyond the doubles' range.
Huge == Num(FALSE, {DBL_MAX_EXP})
OneAndHalf == Num(FALSE, {0, -1})

IntNode(n) == [t |-> "int", num |-> n]
FloatNode(n) == [t |-> "float", num |-> n]
BoolNode(b) == [t |-> "bool", b |-> b]
StrNode(s) == [t |-> "str", s |-> s]
NullNode == [t |-> "null"]
ArrNode(items) == [t |-> "arr", items |-> items]
ObjNode(entries) == [t |-> "obj", entries |-> entries]

\* float(n) for an int n: the double nearest to n, a tie going to the even
\* significand; OverflowError when that is 2^DBL_MAX_EXP or more.
\* [raised, val].
PyFloatNum(n) ==
    IF n.bits = {} THEN [raised |-> FALSE, val |-> FloatNode(n)]
    ELSE LET cut == Max(n.bits) - (DBL_MANT_DIG - 1)   \* the significand's last digit
             kept == {e \in n.bits : e >= cut}
             rest == {e \in n.bits : e < cut}
             \* rest is more than half a unit of the last digit, or is half
             \* of it and the significand is odd
             up == (cut - 1) \in rest /\ (rest # {cut - 1} \/ cut \in kept)
             \* adding 2^cut: the carry stops at the first digit 0
             k == Min({e \in cut..(Max(n.bits) + 1) : e \notin kept})
             r == IF up THEN {e \in kept : e > k} \cup {k} ELSE kept
         IN  [raised |-> Max(r) >= DBL_MAX_EXP, val |-> FloatNode(Num(n.neg, r))]

\* float(v) for v an int or a bool (a bool is an int in Python: True is 1).
PyFloat(v) ==
    IF v.t = "bool" THEN [raised |-> FALSE,
                          val |-> FloatNode(Num(FALSE, IF v.b THEN {0} ELSE {}))]
    ELSE PyFloatNum(v.num)

-----------------------------------------------------------------------------
(* floatify *)

TargetKeys == {"ip", "op", "st", "fr", "w", "h"}

\* isinstance(v, int): bool is a subclass of int.
IsInstanceInt(v) == v.t \in {"int", "bool"}

RECURSIVE floatify(_), floatifyItems(_, _), floatifyList(_, _)

\* Mutant: the loop ends at the first conversion (a return in the if branch).
floatifyItems_first_only(es, i) ==
    IF i > Len(es) THEN [doc |-> es, raised |-> FALSE]
    ELSE LET k == es[i][1]
             v == es[i][2]
         IN  IF k \in TargetKeys /\ IsInstanceInt(v)
             THEN LET f == PyFloat(v)
                  IN  IF f.raised THEN [doc |-> es, raised |-> TRUE]
                      ELSE [doc |-> [es EXCEPT ![i] = <<k, f.val>>], raised |-> FALSE]
             ELSE LET r == floatify(v)
                      es2 == [es EXCEPT ![i] = <<k, r.doc>>]
                  IN  IF r.raised THEN [doc |-> es2, raised |-> TRUE]
                      ELSE floatifyItems(es2, i + 1)

\* Mutant: del obj[k]; obj[k] = float(v) moves the entry to the end.
floatifyItems_reinsert(es, i) ==
    IF i > Len(es) THEN [doc |-> es, raised |-> FALSE]
    ELSE LET k == es[i][1]
             v == es[i][2]
         IN  IF k \in TargetKeys /\ IsInstanceInt(v)
             THEN LET f == PyFloat(v)
                  IN  IF f.raised THEN [doc |-> es, raised |-> TRUE]
                      ELSE floatifyItems(SubSeq(es, 1, i - 1) \o SubSeq(es, i + 1, Len(es))
                                             \o << <<k, f.val>> >>, i)
             ELSE LET r == floatify(v)
                      es2 == [es EXCEPT ![i] = <<k, r.doc>>]
                  IN  IF r.raised THEN [doc |-> es2, raised |-> TRUE]
                      ELSE floatifyItems(es2, i + 1)

\* Mutant: the recursion is the else of the key test alone, so the value of a
\* target key is converted or left, never walked.
floatifyItems_skip_target(es, i) ==
    IF i > Len(es) THEN [doc |-> es, raised |-> FALSE]
    ELSE LET k == es[i][1]
             v == es[i][2]
         IN  IF k \in TargetKeys
             THEN IF IsInstanceInt(v)
                  THEN LET f == PyFloat(v)
                       IN  IF f.raised THEN [doc |-> es, raised |-> TRUE]
                           ELSE floatifyItems([es EXCEPT ![i] = <<k, f.val>>], i + 1)
                  ELSE floatifyItems(es, i + 1)
             ELSE LET r == floatify(v)
                      es2 == [es EXCEPT ![i] = <<k, r.doc>>]
                  IN  IF r.raised THEN [doc |-> es2, raised |-> TRUE]
                      ELSE floatifyItems(es2, i + 1)

\* Mutant: no elif branch for lists.
floatify_no_list(obj) ==
    IF obj.t = "obj"
    THEN LET r == floatifyItems(obj.entries, 1) IN [doc |-> ObjNode(r.doc), raised |-> r.raised]
    ELSE [doc |-> obj, raised |-> FALSE]

\* The for loop over obj.items() from entry i on.  [doc, raised]: the entries
\* as the loop leaves them, and whether an exception left it.
floatifyItems(es, i) ==
    IF i > Len(es) THEN [doc |-> es, raised |-> FALSE]
    ELSE LET k == es[i][1]
             v == es[i][2]
         IN  IF k \in TargetKeys /\ IsInstanceInt(v)
             THEN LET f == PyFloat(v)
                  IN  IF f.raised THEN [doc |-> es, raised |-> TRUE]
                      ELSE floatifyItems([es EXCEPT ![i] = <<k, f.val>>], i + 1)
             ELSE LET r == floatify(v)
                      es2 == [es EXCEPT ![i] = <<k, r.doc>>]
                  IN  IF r.raised THEN [doc |-> es2, raised |-> TRUE]
                      ELSE floatifyItems(es2, i + 1)

\* The for loop over a list from element i on.
floatifyList(xs, i) ==
    IF i > Len(xs) THEN [doc |-> xs, raised |-> FALSE]
    ELSE LET r == floatify(xs[i])
             xs2 == [xs EXCEPT ![i] = r.doc]
         IN  IF r.raised THEN [doc |-> xs2, raised |-> TRUE]
             ELSE floatifyList(xs2, i + 1)

\* floatify(obj) mutates obj in place: doc is obj when the call ends, raised
\* whether it ended by an exception.
floatify(obj) ==
    IF obj.t = "obj"
    THEN LET r == floatifyItems(obj.entries, 1) IN [doc |-> ObjNode(r.doc), raised |-> r.raised]
    ELSE IF obj.t = "arr"
    THEN LET r == floatifyList(obj.items, 1) IN [doc |-> ArrNode(r.doc), raised |-> r.raised]
    ELSE [doc |-> obj, raised |-> FALSE]

-----------------------------------------------------------------------------
(* json.dump and json.load *)

\* The text of a file is the sequence of its JSON tokens; white space, commas
\* and colons, which indent=4 lays out and the parser skips, are left out.
Punct(c) == [tok |-> c, val |-> NullNode]
Lit(node) == [tok |-> "lit", val |-> node]
KeyTok(k) == [tok |-> "key", val |-> StrNode(k)]

RECURSIVE Dump(_), DumpItems(_, _), DumpEntries(_, _)

DumpItems(xs, i) ==
    IF i > Len(xs) THEN <<>> ELSE Dump(xs[i]) \o DumpItems(xs, i + 1)

DumpEntries(es, i) ==
    IF i > Len(es) THEN <<>>
    ELSE <<KeyTok(es[i][1])>> \o Dump(es[i][2]) \o DumpEntries(es, i + 1)

\* The chunks json.dump(data, f, indent=4) writes, in order.
Dump(node) ==
    IF node.t = "obj" THEN <<Punct("{")>> \o DumpEntries(node.entries, 1) \o <<Punct("}")>>
    ELSE IF node.t = "arr" THEN <<Punct("[")>> \o DumpItems(node.items, 1) \o <<Punct("]")>>
    ELSE <<Lit(node)>>

\* dict[k] = v while a dict is built: a key already there keeps its place.
SetEntry(es, k, v) ==
    IF \E i \in 1..Len(es) : es[i][1] = k
    THEN [i \in 1..Len(es) |-> IF es[i][1] = k THEN <<k, v>> ELSE es[i]]
    ELSE Append(es, <<k, v>>)

ParseError == [ok |-> FALSE, doc |-> NullNode, next |-> 0]

RECURSIVE ParseValue(_, _), ParseItems(_, _, _), ParseMembers(_, _, _)

\* The value that starts at token i: [ok, doc, next].
ParseValue(ts, i) ==
    IF i > Len(ts) THEN ParseError
    ELSE IF ts[i].tok = "lit" THEN [ok |-> TRUE, doc |-> ts[i].val, next |-> i + 1]
    ELSE IF ts[i].tok = "[" THEN ParseItems(ts, i + 1, <<>>)
    ELSE IF ts[i].tok = "{" THEN ParseMembers(ts, i + 1, <<>>)
    ELSE ParseError

ParseItems(ts, i, acc) ==
    IF i > Len(ts) THEN ParseError
    ELSE IF ts[i].tok = "]" THEN [ok |-> TRUE, doc |-> ArrNode(acc), next |-> i + 1]
    ELSE LET r == ParseValue(ts, i)
         IN  IF r.ok THEN ParseItems(ts, r.next, Append(acc, r.doc)) ELSE ParseError

ParseMembers(ts, i, acc) ==
    IF i > Len(ts) THEN ParseError
    ELSE IF ts[i].tok = "}" THEN [ok |-> TRUE, doc |-> ObjNode(acc), next |-> i + 1]
    ELSE IF ts[i].tok = "key"
    THEN LET r == ParseValue(ts, i + 1)
         IN  IF r.ok THEN ParseMembers(ts, r.next, SetEntry(acc, ts[i].val.s, r.doc))
             ELSE ParseError
    ELSE ParseError

\* json.load of a text: [ok, doc]; not ok is JSONDecodeError (no value, an
\* unclosed container, or text after the value).
Load(ts) ==
    LET r == ParseValue(ts, 1)
    IN  [ok |-> r.ok /\ r.next = Len(ts) + 1, doc |-> r.doc]

-----------------------------------------------------------------------------
(* The documents of the model *)

Scalars ==
    { IntNode(Five), IntNode(BigOdd), IntNode(Huge), FloatNode(OneAndHalf),
      BoolNode(TRUE), StrNode("op"), NullNode }

\* A target key and one that is not.
Keys == {"w", "name"}

\* The set S, enumerated once and for all.
Enumerated(S) == {x \in S : TRUE}

RECURSIVE DocsBySize(_), ItemSeqs(_, _), ItemSeqsFrom(_, _, _),
          EntrySeqs(_, _), EntrySeqsFrom(_, _, _), UpTo(_, _)

\* The lists whose elements have n nodes in all, the first of them j or more;
\* by[j] is the set of the documents of j nodes.
ItemSeqsFrom(by, n, j) ==
    IF j > n THEN {}
    ELSE Enumerated({ <<d>> \o rest : d \in by[j], rest \in ItemSeqs(by, n - j) })
             \cup ItemSeqsFrom(by, n, j + 1)

ItemSeqs(by, n) == IF n = 0 THEN {<<>>} ELSE ItemSeqsFrom(by, n, 1)

\* The entry sequences whose values have n nodes in all; no key comes twice.
EntrySeqsFrom(by, n, j) ==
    IF j > n THEN {}
    ELSE { es \in { << <<k, d>> >> \o rest : k \in Keys, d \in by[j],
                                             rest \in EntrySeqs(by, n - j) } :
               \A i \in 2..Len(es) : es[i][1] # es[1][1] }
             \cup EntrySeqsFrom(by, n, j + 1)

EntrySeqs(by, n) == IF n = 0 THEN {<<>>} ELSE EntrySeqsFrom(by, n, 1)

\* <<the documents of 1 node, ..., the documents of n nodes>>.
DocsBySize(n) ==
    IF n = 0 THEN <<>>
    ELSE IF n = 1 THEN <<Scalars \cup {ArrNode(<<>>), ObjNode(<<>>)}>>
    ELSE LET by == DocsBySize(n - 1)
         IN  Append(by, Enumerated(Enumerated({ ArrNode(xs) : xs \in ItemSeqs(by, n - 1) })
                                       \cup { ObjNode(es) : es \in EntrySeqs(by, n - 1) }))

UpTo(by, n) == IF n = 0 THEN {} ELSE by[n] \cup UpTo(by, n - 1)

\* The documents of at most n nodes.
DocsUpTo(n) == UpTo(DocsBySize(n), n)

Docs == DocsUpTo(MaxNodes)

\* A document on which float() raises at the second target key the iteration
\* meets, after the first has been replaced.
RaisesHalfway ==
    ObjNode(<< <<"w", IntNode(Five)>>,
               <<"name", ObjNode(<< <<"w", IntNode(Huge)>> >>)>> >>)

\* The documents a file may hold when the script starts.
FileDocs == DocsUpTo(MaxFileNodes) \cup {RaisesHalfway}

\* Texts that are not JSON: an empty file, an unclosed object (what a write
\* cut short leaves), a stray bracket.
BadTexts == { <<>>, <<Punct("{")>>, <<Punct("]")>>, <<Lit(NullNode), Lit(NullNode)>> }

-----------------------------------------------------------------------------
(* The script: lines 15-25 *)

VARIABLES
    pc,        \* the statement the script is at
    argv,      \* sys.argv
    fs,        \* the file system: name -> file
    orig,      \* the file system when the script started
    text,      \* what f.read() returned
    data,      \* the parsed document
    handles,   \* the open file objects: "r" (line 16), "w" (line 21)
    out,       \* the lines printed to standard output
    err,       \* the exception the try block raised, and the line that raised it
    exit       \* <<>> while the script runs, then <<its exit code>>

vars == <<pc, argv, fs, orig, text, data, handles, out, err, exit>>

Prog == "floatify.py"
\* Another name of the directory, where a backup or a temporary would go.
OtherPath == "doc.json.tmp"
Names == {Path, OtherPath}

Absent == [exists |-> FALSE, readable |-> FALSE, writable |-> FALSE, content |-> <<>>]
File(c, r, w) == [exists |-> TRUE, readable |-> r, writable |-> w, content |-> c]

NoData == [t |-> "unbound"]
Exc(type, line) == [type |-> type, line |-> line]
NoErr == Exc("none", 0)

Prefix(ts, n) == SubSeq(ts, 1, n)

\* except Exception as e: every exception of the try block lands on line 24.
Raise(type, line) ==
    /\ err' = Exc(type, line)
    /\ pc' = "except"

\* Mutant: no with statement, and no close().
WithExit_leak == handles' = handles

\* Leaving a with block, by its end or by an exception, closes its file.
WithExit == handles' = {}

Init ==
    /\ pc = "start"
    /\ argv \in {<<Prog>>, <<Prog, Path>>}
    /\ \E f \in {Absent} \cup { File(c, r, w) : c \in { Dump(d) : d \in FileDocs } \cup BadTexts,
                                                r \in BOOLEAN, w \in BOOLEAN } :
           fs = [n \in Names |-> IF n = Path THEN f ELSE Absent]
    /\ orig = fs
    /\ text = <<>>
    /\ data = NoData
    /\ handles = {}
    /\ out = <<>>
    /\ err = NoErr
    /\ exit = <<>>

\* Mutant: open(sys.argv[1], 'w+'), which creates or truncates the file.
OpenRead_w_plus ==
    /\ pc = "start"
    /\ \/ /\ Len(argv) < 2
          /\ Raise("IndexError", 16)
          /\ UNCHANGED <<handles, fs>>
       \/ /\ Len(argv) >= 2
          /\ fs' = [fs EXCEPT ![argv[2]] = File(<<>>, TRUE, TRUE)]
          /\ handles' = handles \cup {"r"}
          /\ pc' = "read"
          /\ UNCHANGED err
    /\ UNCHANGED <<argv, orig, text, data, out, exit>>

\* Line 16: open(sys.argv[1], 'r').
OpenRead ==
    /\ pc = "start"
    /\ \/ /\ Len(argv) < 2
          /\ Raise("IndexError", 16)
          /\ UNCHANGED handles
       \/ /\ Len(argv) >= 2
          /\ ~fs[argv[2]].exists
          /\ Raise("FileNotFoundError", 16)
          /\ UNCHANGED handles
       \/ /\ Len(argv) >= 2
          /\ fs[argv[2]].exists
          /\ ~fs[argv[2]].readable
          /\ Raise("PermissionError", 16)
          /\ UNCHANGED handles
       \/ /\ Len(argv) >= 2
          /\ fs[argv[2]].exists
          /\ fs[argv[2]].readable
          /\ handles' = handles \cup {"r"}
          /\ pc' = "read"
          /\ UNCHANGED err
    /\ UNCHANGED <<argv, fs, orig, text, data, out, exit>>

\* Line 17, json.load(f): f.read().
ReadText ==
    /\ pc = "read"
    /\ \/ /\ text' = fs[argv[2]].content
          /\ pc' = "parse"
          /\ UNCHANGED <<handles, err>>
       \/ /\ Raise("OSError", 17)
          /\ WithExit
          /\ UNCHANGED text
    /\ UNCHANGED <<argv, fs, orig, data, out, exit>>

\* Line 17, json.load(f): the parse of what was read, the assignment to data
\* and the end of the with block.
ParseText ==
    /\ pc = "parse"
    /\ LET r == Load(text)
       IN  \/ /\ r.ok
              /\ data' = r.doc
              /\ pc' = "floatify"
              /\ UNCHANGED err
           \/ /\ ~r.ok
              /\ Raise("JSONDecodeError", 17)
              /\ UNCHANGED data
    /\ WithExit
    /\ UNCHANGED <<argv, fs, orig, text, out, exit>>

\* Line 19: floatify(data).
Transform ==
    /\ pc = "floatify"
    /\ LET r == floatify(data)
       IN  /\ data' = r.doc
           /\ \/ /\ ~r.raised
                 /\ pc' = "open_w"
                 /\ UNCHANGED err
              \/ /\ r.raised
                 /\ Raise("OverflowError", 19)
    /\ UNCHANGED <<argv, fs, orig, text, handles, out, exit>>

\* Mutant: open(sys.argv[1], 'r+'), which keeps the content.
OpenWrite_r_plus ==
    /\ pc = "open_w"
    /\ \/ /\ fs[argv[2]].writable
          /\ handles' = handles \cup {"w"}
          /\ pc' = "dump"
          /\ UNCHANGED <<fs, err>>
       \/ /\ ~fs[argv[2]].writable
          /\ Raise("PermissionError", 21)
          /\ UNCHANGED <<fs, handles>>
    /\ UNCHANGED <<argv, orig, text, data, out, exit>>

\* Line 21: open(sys.argv[1], 'w') truncates the file.
OpenWrite ==
    /\ pc = "open_w"
    /\ \/ /\ fs[argv[2]].writable
          /\ fs' = [fs EXCEPT ![argv[2]] = File(<<>>, @.readable, @.writable)]
          /\ handles' = handles \cup {"w"}
          /\ pc' = "dump"
          /\ UNCHANGED err
       \/ /\ ~fs[argv[2]].writable
          /\ Raise("PermissionError", 21)
          /\ UNCHANGED <<fs, handles>>
    /\ UNCHANGED <<argv, orig, text, data, out, exit>>

\* Line 22: json.dump(data, f, indent=4) writes the chunks to f, which
\* buffers them: n of them have reached the file when the call ends, by its
\* end or by a failed write.
DumpData ==
    /\ pc = "dump"
    /\ \E n \in 0..Len(Dump(data)) :
           /\ fs' = [fs EXCEPT ![argv[2]].content = Prefix(Dump(data), n)]
           /\ \/ /\ pc' = "close_w"
                 /\ UNCHANGED <<handles, err>>
              \/ /\ n < Len(Dump(data))
                 /\ Raise("OSError", 22)
                 /\ WithExit
    /\ UNCHANGED <<argv, orig, text, data, out, exit>>

\* Line 22, the end of the with block: f.close() writes what is buffered.
CloseWrite ==
    /\ pc = "close_w"
    /\ WithExit
    /\ \/ /\ fs' = [fs EXCEPT ![argv[2]].content = Dump(data)]
          /\ pc' = "print_ok"
          /\ UNCHANGED err
       \/ /\ Raise("OSError", 22)
          /\ UNCHANGED fs
    /\ UNCHANGED <<argv, orig, text, data, out, exit>>

\* The script ends after its last statement: exit code 0.
ExitNormally == exit' = <<0>>

\* Line 23: print(f"Processed {sys.argv[1]}").
PrintProcessed ==
    /\ pc = "print_ok"
    /\ out' = Append(out, [line |-> "Processed", path |-> argv[2]])
    /\ pc' = "done"
    /\ ExitNormally
    /\ UNCHANGED <<argv, fs, orig, text, data, handles, err>>

\* Mutant: the handler prints and raises again; the script dies of the
\* exception, exit code 1.
PrintError_reraise ==
    /\ pc = "except"
    /\ out' = Append(out, [line |-> "error", exc |-> err])
    /\ pc' = "failed"
    /\ exit' = <<1>>
    /\ UNCHANGED <<argv, fs, orig, text, data, handles, err>>

\* Lines 24-25: except Exception as e: print(e).
PrintError ==
    /\ pc = "except"
    /\ out' = Append(out, [line |-> "error", exc |-> err])
    /\ pc' = "failed"
    /\ ExitNormally
    /\ UNCHANGED <<argv, fs, orig, text, data, handles, err>>

Next ==
    \/ OpenRead
    \/ ReadText
    \/ ParseText
    \/ Transform
    \/ OpenWrite
    \/ DumpData
    \/ CloseWrite
    \/ PrintProcessed
    \/ PrintError

Spec == Init /\ [][Next]_vars

\* The script is one thread that runs each statement to its end.
FairSpec == Spec /\ WF_vars(Next)

\* floatify alone, on every document of the model: the script at line 19,
\* having loaded the document from its file.
FloatifyInit ==
    /\ pc = "floatify"
    /\ argv = <<Prog, Path>>
    /\ data \in Docs
    /\ fs = [n \in Names |-> IF n = Path THEN File(Dump(data), TRUE, TRUE) ELSE Absent]
    /\ orig = fs
    /\ text = Dump(data)
    /\ handles = {}
    /\ out = <<>>
    /\ err = NoErr
    /\ exit = <<>>

FloatifySpec == FloatifyInit /\ [][Transform]_vars

-----------------------------------------------------------------------------
(* Documents, position by position *)

IsContainer(node) == node.t \in {"obj", "arr"}
NChildren(node) ==
    IF node.t = "obj" THEN Len(node.entries)
    ELSE IF node.t = "arr" THEN Len(node.items) ELSE 0
Child(node, i) == IF node.t = "obj" THEN node.entries[i][2] ELSE node.items[i]
KeySeq(node) == [i \in 1..Len(node.entries) |-> node.entries[i][1]]

RECURSIVE Paths(_), Sub(_, _), SameShape(_, _)

\* The positions of a document: the root is <<>>, and p \o <<i>> is the i-th
\* entry or element of the container at p.
Paths(node) ==
    {<<>>} \cup UNION { { <<i>> \o q : q \in Paths(Child(node, i)) } : i \in 1..NChildren(node) }

\* The node at position p.
Sub(node, p) == IF p = <<>> THEN node ELSE Sub(Child(node, p[1]), Tail(p))

\* The key the node at p is the value of: <<k>>, or <<>> for the root and for
\* an element of a list.
KeyOf(doc, p) ==
    IF p = <<>> THEN <<>>
    ELSE LET parent == Sub(doc, Front(p))
         IN  IF parent.t = "obj" THEN <<parent.entries[Last(p)][1]>> ELSE <<>>

UnderTargetKey(doc, p) == \E k \in TargetKeys : KeyOf(doc, p) = <<k>>

\* Same nesting: the same containers, with the same keys in the same order and
\* the same lengths, and leaves where there were leaves.
SameShape(a, b) ==
    IF a.t = "obj"
    THEN /\ b.t = "obj"
         /\ KeySeq(a) = KeySeq(b)
         /\ \A i \in 1..NChildren(a) : SameShape(Child(a, i), Child(b, i))
    ELSE IF a.t = "arr"
    THEN /\ b.t = "arr"
         /\ NChildren(a) = NChildren(b)
         /\ \A i \in 1..NChildren(a) : SameShape(Child(a, i), Child(b, i))
    ELSE ~IsContainer(b)

\* The document the file held when the script started, as json.load gives it.
In == Load(orig[Path].content).doc

\* floatify has run: to its end (Returned) or to an exception.
Returned == pc = "open_w"
Transformed == pc \in {"open_w", "except"}

\* A double: at most DBL_MANT_DIG significant digits, below 2^DBL_MAX_EXP.
IsDouble(n) ==
    n.bits = {} \/ (Max(n.bits) - Min(n.bits) < DBL_MANT_DIG /\ Max(n.bits) < DBL_MAX_EXP)

Example(k, v) == ObjNode(<< <<k, v>> >>)

-----------------------------------------------------------------------------
(* floatify: the claims, under FloatifySpec *)

\* In what follows a is the document floatify was called on and b the
\* document when the call has ended.

TargetInt(doc, p) == UnderTargetKey(doc, p) /\ Sub(doc, p).t = "int"
NoTargetInt(doc) == \A p \in Paths(doc) : ~TargetInt(doc, p)

EqualFloats(a, b) ==
    /\ SameShape(a, b)
    /\ \A p \in Paths(a) :
           TargetInt(a, p) =>
               /\ Sub(b, p).t = "float"
               /\ Sub(b, p).num = Sub(a, p).num
    /\ NoTargetInt(b)

NearestFloats(a, b) ==
    /\ SameShape(a, b)
    /\ \A p \in Paths(a) :
           TargetInt(a, p) =>
               /\ Sub(b, p).t = "float"
               /\ IsDouble(Sub(b, p).num)
               /\ Sub(b, p).num.neg = Sub(a, p).num.neg
               /\ IsDouble(Sub(a, p).num) => Sub(b, p).num = Sub(a, p).num
    /\ NoTargetInt(b)

BoolsKept(a, b) ==
    /\ SameShape(a, b)
    /\ \A p \in Paths(a) :
           UnderTargetKey(a, p) /\ Sub(a, p).t = "bool" => Sub(b, p) = Sub(a, p)

\* C2 as stated: a boolean under a target key is the same boolean after
\* floatify.
C2_BoolsKept == Transformed => BoolsKept(In, data)

OthersUntouched(a, b) ==
    /\ SameShape(a, b)
    /\ \A p \in Paths(a) :
           ~IsContainer(Sub(a, p)) /\ ~TargetInt(a, p) => Sub(b, p) = Sub(a, p)

\* C3 as stated: every leaf that is not an integer under a target key (the
\* root, an element of a list, the value of any key) has after floatify the
\* type and the value it had.
C3_OthersUntouched == Transformed => OthersUntouched(In, data)

FloatsKept(a, b) ==
    /\ SameShape(a, b)
    /\ \A p \in Paths(a) : Sub(a, p).t = "float" => Sub(b, p) = Sub(a, p)

\* C4: floatify applied to its own result changes nothing and ends the way
\* the first call ended; a float, under a target key or elsewhere, is what it
\* was.
C4_Idempotent ==
    Transformed =>
        /\ floatify(data) = [doc |-> data, raised |-> ~Returned]
        /\ FloatsKept(In, data)

\* An integer under a target key and a float under one: converted and kept,
\* and a second call leaves both.
C4_Witness ==
    /\ Returned
    /\ In = ObjNode(<< <<"w", IntNode(Five)>>,
                       <<"name", Example("w", FloatNode(OneAndHalf))>> >>)
    /\ data = ObjNode(<< <<"w", FloatNode(Five)>>,
                         <<"name", Example("w", FloatNode(OneAndHalf))>> >>)
    /\ floatify(data).doc = data

OnlyTargetLeavesDiffer(a, b) ==
    /\ SameShape(a, b)
    /\ \A p \in Paths(a) :
           ~IsContainer(Sub(a, p)) /\ ~UnderTargetKey(a, p) => Sub(b, p) = Sub(a, p)

ContainersTraversed(a, b, returned) ==
    /\ SameShape(a, b)
    /\ \A p \in Paths(a) :
           /\ UnderTargetKey(a, p) /\ IsContainer(Sub(a, p)) =>
                  /\ Sub(b, p).t = Sub(a, p).t
                  /\ returned => NoTargetInt(Sub(b, p))
           /\ p # <<>> /\ Sub(a, Front(p)).t = "arr" /\ Sub(a, p).t = "int" =>
                  Sub(b, p) = Sub(a, p)

-----------------------------------------------------------------------------
(* The script: the claims, under Spec and FairSpec *)

Terminal == pc \in {"done", "failed"}
Failing == pc \in {"except", "failed"}
IsPrefix(s, ts) == Len(s) <= Len(ts) /\ s = Prefix(ts, Len(s))

\* C6: the file system is what it was at the start until line 21 has opened
\* the file for writing: before that line, and in every run that an exception
\* of lines 16 to 21 ended (no argument, no such file, no permission, not
\* JSON, an exception of floatify); a path that names no file names none
\* afterwards; and when the file system has changed, floatify had returned
\* and data is its whole result.
C6_OnlyWriteStepModifies ==
    /\ pc \in {"start", "read", "parse", "floatify", "open_w"} => fs = orig
    /\ Failing /\ err.line <= 21 => fs = orig
    /\ ~orig[Path].exists => fs = orig
    /\ fs # orig =>
           /\ Load(orig[Path].content).ok
           /\ floatify(In) = [doc |-> data, raised |-> FALSE]

\* floatify raised after it had changed data in memory; the file is untouched.
C6_Witness ==
    /\ pc = "failed"
    /\ err = Exc("OverflowError", 19)
    /\ data # In
    /\ fs = orig

\* The states of the specification's state machine.
Phase(at) ==
    CASE at = "start" -> "Idle"
      [] at = "read" -> "Reading"
      [] at = "parse" -> "Parsing"
      [] at = "floatify" -> "Transforming"
      [] at \in {"open_w", "dump", "close_w", "print_ok"} -> "Writing"
      [] at = "done" -> "Done"
      [] at \in {"except", "failed"} -> "Failed"

PhaseOrder == <<"Idle", "Reading", "Parsing", "Transforming", "Writing", "Done">>
Rank(ph) == CHOOSE i \in 1..Len(PhaseOrder) : PhaseOrder[i] = ph

LinearStep ==
    LET a == Phase(pc)
        b == Phase(pc')
    IN  \/ b = a
        \/ b = "Failed"
        \/ a # "Failed" /\ b # "Failed" /\ Rank(b) = Rank(a) + 1

OneLineAndExitZero ==
    /\ ~Terminal => out = <<>> /\ exit = <<>>
    /\ Terminal => Len(out) = 1 /\ exit = <<0>>
    /\ pc = "done" =>
           /\ out = <<[line |-> "Processed", path |-> Path]>>
           /\ err = NoErr
           /\ handles = {}
           /\ fs[Path].content = Dump(data)
    /\ pc = "failed" =>
           /\ out = <<[line |-> "error", exc |-> err]>>
           /\ err # NoErr
    /\ err # NoErr => Failing

\* C7: a run goes through Idle, Reading, Parsing, Transforming, Writing, Done
\* in that order, or from any of them to Failed, and ends in Done or Failed;
\* it prints nothing before it ends and one line when it ends: the
\* confirmation naming the path exactly when the write was completed and no
\* step failed, the exception exactly when a step failed; its exit code is 0
\* either way, also without a path argument.
C7_LinearRunOneLine ==
    /\ [][LinearStep]_vars
    /\ []OneLineAndExitZero
    /\ <>Terminal

\* A run without a path argument ended in Failed, one line printed, exit code 0.
C7_Witness ==
    /\ pc = "failed"
    /\ Len(argv) < 2
    /\ err = Exc("IndexError", 16)
    /\ Len(out) = 1
    /\ exit = <<0>>

\* C8: line 21 leaves the file empty before line 22 has written anything;
\* what a failed write leaves is a part of the output from its start; no
\* other file of the directory is created or changed.
C8_TruncateThenWrite ==
    /\ pc = "dump" => "w" \in handles /\ fs[Path].content = <<>>
    /\ Failing /\ err.line = 22 => IsPrefix(fs[Path].content, Dump(data))
    /\ \A n \in Names \ {Path} : fs[n] = orig[n] /\ ~fs[n].exists

\* A write failed, and the file holds neither what it held nor the whole
\* transformed document.
C8_Witness ==
    /\ pc = "failed"
    /\ err = Exc("OSError", 22)
    /\ fs[Path].content # orig[Path].content
    /\ fs[Path].content # Dump(data)

\* C9: at most one handle is open; none while floatify runs nor when line 21
\* is reached, so the read handle is closed before the write handle is
\* opened; none once an exception is caught, a line is printed or the run
\* has ended.
C9_OneHandleAtATime ==
    /\ Cardinality(handles) <= 1
    /\ pc \in {"start", "floatify", "open_w"} => handles = {}
    /\ pc \in {"read", "parse"} => handles = {"r"}
    /\ pc \in {"dump", "close_w"} => handles = {"w"}
    /\ pc \in {"print_ok", "except", "done", "failed"} => handles = {}
    /\ out # <<>> => handles = {}

\* The write handle is open, the read handle closed.
C9_Witness ==
    /\ pc = "dump"
    /\ handles = {"w"}
    /\ data = floatify(In).doc

====
